---- MODULE Spec2Model ----
(***************************************************************************)
(* Model of src/dashboard.py, the Streamlit script of the NYC Airbnb       *)
(* dashboard.  One script run is a straight-line program: load the data    *)
(* (memoized by st.cache_data), build the sidebar filters, derive the      *)
(* price slider bounds from the price-range labels, query the              *)
(* DataProcessor and render the overview, five tabs and the data table.    *)
(* Streamlit re-executes the whole script on every user interaction.       *)
(*                                                                         *)
(* Text is modelled as a sequence of one-character strings, so that        *)
(* str.replace, str.split and int() are computed character by character.   *)
(***************************************************************************)
EXTENDS Integers, Sequences, FiniteSets, TLC

\* ------------------------------------------------------------------ bounds

\* Longest list of price-range labels given to the helper on its own.
MaxLabels == 3

\* ------------------------------------------------------- Python primitives

Digits == <<"0", "1", "2", "3", "4", "5", "6", "7", "8", "9">>

IsDigit(c) == \E i \in 1..Len(Digits) : Digits[i] = c

DigitVal(c) == (CHOOSE i \in 1..Len(Digits) : Digits[i] = c) - 1

\* str.replace('$', ''): every occurrence of old is removed.
RECURSIVE Replace(_, _)
Replace(s, old) ==
    IF s = <<>> THEN <<>>
    ELSE IF Head(s) = old THEN Replace(Tail(s), old)
         ELSE <<Head(s)>> \o Replace(Tail(s), old)

\* str.split(sep): the pieces between the separators, empty pieces kept;
\* a text without the separator gives one piece.
RECURSIVE SplitFrom(_, _, _)
SplitFrom(s, sep, cur) ==
    IF s = <<>> THEN <<cur>>
    ELSE IF Head(s) = sep THEN <<cur>> \o SplitFrom(Tail(s), sep, <<>>)
         ELSE SplitFrom(Tail(s), sep, Append(cur, Head(s)))

Split(s, sep) == SplitFrom(s, sep, <<>>)

\* str.strip() as int() applies it: leading and trailing blanks go.
RECURSIVE LStrip(_)
LStrip(s) == IF s # <<>> /\ Head(s) = " " THEN LStrip(Tail(s)) ELSE s

RECURSIVE RStrip(_)
RStrip(s) ==
    IF s # <<>> /\ s[Len(s)] = " " THEN RStrip(SubSeq(s, 1, Len(s) - 1)) ELSE s

Strip(s) == RStrip(LStrip(s))

\* The text of an int() argument once blanks and an optional sign are off.
Unsigned(s) ==
    LET t == Strip(s)
    IN  IF t # <<>> /\ Head(t) \in {"+", "-"} THEN Tail(t) ELSE t

\* int(s) succeeds: blanks around, an optional sign, then decimal digits
\* with single underscores allowed between digits.
IntParses(s) ==
    LET u == Unsigned(s)
    IN  /\ u # <<>>
        /\ IsDigit(u[1])
        /\ IsDigit(u[Len(u)])
        /\ \A i \in 1..Len(u) : IsDigit(u[i]) \/ u[i] = "_"
        /\ \A i \in 1..(Len(u) - 1) : ~(u[i] = "_" /\ u[i + 1] = "_")

RECURSIVE DigitsVal(_, _)
DigitsVal(u, acc) ==
    IF u = <<>> THEN acc
    ELSE IF Head(u) = "_" THEN DigitsVal(Tail(u), acc)
         ELSE DigitsVal(Tail(u), 10 * acc + DigitVal(Head(u)))

\* The value of int(s) when it succeeds.
IntVal(s) ==
    LET t == Strip(s)
        v == DigitsVal(Unsigned(s), 0)
    IN  IF t # <<>> /\ Head(t) = "-" THEN 0 - v ELSE v

\* min() and max() of a non-empty list.
RECURSIVE Min(_)
Min(xs) ==
    IF Len(xs) = 1 THEN xs[1]
    ELSE LET m == Min(Tail(xs)) IN IF xs[1] <= m THEN xs[1] ELSE m

RECURSIVE Max(_)
Max(xs) ==
    IF Len(xs) = 1 THEN xs[1]
    ELSE LET m == Max(Tail(xs)) IN IF xs[1] >= m THEN xs[1] ELSE m

\* ------------------------------------------------- price-range label inputs

\* A list entry: a text, or a value that is no text (None, a NaN float).
Str(chars) == [type |-> "str", text |-> chars]

NotAStr == [type |-> "NoneType", text |-> <<>>]

\* The labels the helper is tried on.
Labels ==
    { Str(<<"$", "1", "0", "-", "2", "0">>),        \* "$10-20"
      Str(<<"$", "3", "0", "-", "f", "o", "o">>),   \* "$30-foo"
      Str(<<"$", "5", "-", "1", "5">>),             \* "$5-15"
      Str(<<"$", "2">>),                            \* "$2"
      Str(<<"f", "o", "o", "-", "4", "0">>),        \* "foo-40"
      Str(<<"$", "3", "0", "-", "1", "0">>),        \* "$30-10"
      Str(<<"+", "7", " ", "-", "1", "_", "2">>),   \* "+7 -1_2"
      Str(<<"$", "1", "-", "2", "-", "3">>),        \* "$1-2-3"
      Str(<<>>),                                    \* ""
      NotAStr }

\* All lists of at most n entries over a set.
RECURSIVE ListsUpTo(_, _)
ListsUpTo(S, n) ==
    IF n = 0 THEN {<<>>}
    ELSE LET shorter == ListsUpTo(S, n - 1)
         IN  shorter \cup {Append(l, x) : l \in {m \in shorter : Len(m) = n - 1}, x \in S}

LabelLists == ListsUpTo(Labels, MaxLabels)

\* ------------------------------------------ extract_min_max_from_price_ranges

NoPrices == [min_prices |-> <<>>, max_prices |-> <<>>]

\* One pass of the for loop: the try block appends as far as it gets, the
\* bare except swallows whatever is raised and goes on to the next entry.
LoopBody(acc, range_str) ==
    IF range_str.type # "str"
    THEN acc                                      \* no .replace: AttributeError
    ELSE LET parts == Split(Replace(range_str.text, "$"), "-")
         IN  IF ~IntParses(parts[1])
             THEN acc                             \* int(parts[0]): ValueError
             ELSE LET acc1 == [acc EXCEPT !.min_prices = Append(@, IntVal(parts[1]))]
                  IN  IF Len(parts) < 2
                      THEN acc1                   \* parts[1]: IndexError
                      ELSE IF ~IntParses(parts[2])
                           THEN acc1              \* int(parts[1]): ValueError
                           ELSE [acc1 EXCEPT !.max_prices = Append(@, IntVal(parts[2]))]

RECURSIVE ForLoop(_, _)
ForLoop(acc, price_ranges_) ==
    IF price_ranges_ = <<>> THEN acc
    ELSE ForLoop(LoopBody(acc, Head(price_ranges_)), Tail(price_ranges_))

\* Faulty variant: the return statement with min(..., default=0), max(..., default=0).
ReturnMinMaxWithDefault(acc) ==
    [raised |-> "none",
     min_value |-> IF acc.min_prices = <<>> THEN 0 ELSE Min(acc.min_prices),
     max_value |-> IF acc.max_prices = <<>> THEN 0 ELSE Max(acc.max_prices)]

\* Faulty variant: the return statement with the two results the wrong way round.
ReturnMaxMin(acc) ==
    IF acc.min_prices = <<>> \/ acc.max_prices = <<>>
    THEN [raised |-> "ValueError", min_value |-> 0, max_value |-> 0]
    ELSE [raised |-> "none",
          min_value |-> Max(acc.max_prices),
          max_value |-> Min(acc.min_prices)]

\* The return statement: min() and max() raise ValueError on an empty list.
ReturnMinMax(acc) ==
    IF acc.min_prices = <<>> \/ acc.max_prices = <<>>
    THEN [raised |-> "ValueError", min_value |-> 0, max_value |-> 0]
    ELSE [raised |-> "none",
          min_value |-> Min(acc.min_prices),
          max_value |-> Max(acc.max_prices)]

extract_min_max_from_price_ranges(price_ranges_) ==
    ReturnMinMax(ForLoop(NoPrices, price_ranges_))

\* ------------------------------------------------------------ session state

VARIABLES
    pc,                      \* the statement the script run is at
    exc,                     \* the uncaught exception that ended the run, or "none"
    cache,                   \* st.cache_data's entry for load_data
    file_read,               \* this run constructed DataProcessor from the CSV file
    data_processor,
    shown,                   \* the elements this run has put on the page, in order
    calls,                   \* the DataProcessor methods this run has called, in order
    price_ranges,
    selected,                \* what the two selectboxes returned
    neighborhood_group,
    room_type,
    min_value,
    max_value,
    min_price,
    max_price,
    data_processor_filtered,
    overview_stats,
    metrics,                 \* the four st.metric values of the overview
    view_data                \* the result the tab block just run has queried

vars ==
    <<pc, exc, cache, file_read, data_processor, shown, calls, price_ranges,
      selected, neighborhood_group, room_type, min_value, max_value, min_price,
      max_price, data_processor_filtered, overview_stats, metrics, view_data>>

\* A name not bound yet in this run.
Unset == "<unset>"

\* What the slider step leaves alone or has not reached.
loadVars == <<cache, file_read, data_processor>>

filterVars == <<selected, neighborhood_group, room_type>>

boundVars == <<min_value, max_value>>

priceVars == <<min_price, max_price>>

statVars == <<overview_stats, metrics>>

\* ------------------------------------------------- what DataProcessor returns

\* The instance load_data returns.
TheProcessor == "DataProcessor"

NeighborhoodGroups == <<"Manhattan">>

RoomTypes == <<"Private room">>

\* The label lists get_price_ranges() returns in a run.
PriceRangeLists ==
    { <<>>,
      <<Str(<<"$", "1", "-", "2">>)>>,                       \* ["$1-2"]
      <<Str(<<"$", "2", "-", "1">>)>>,                       \* ["$2-1"]
      <<Str(<<"$", "1", "+">>)>>,                            \* ["$1+"]
      <<Str(<<"$", "1">>), Str(<<"$", "2", "-", "2">>)>> }   \* ["$1", "$2-2"]

\* A query result: None, or a plain container with len entries.
PyNone == [kind |-> "None", len |-> 0]

Container(n) == [kind |-> "container", len |-> n]

QueryResults == {PyNone, Container(0), Container(1)}

StatKeys == {"total_listings", "avg_price", "avg_reviews", "neighborhoods"}

\* The value get_overview_stats gives a key it returns.
StatValue ==
    [k \in StatKeys |->
        CASE k = "total_listings" -> 3
          [] k = "avg_price" -> 125
          [] k = "avg_reviews" -> 4
          [] k = "neighborhoods" -> 2]

\* The dicts get_overview_stats() returns: any of the keys may be absent.
StatsResults == {[k \in present |-> StatValue[k]] : present \in SUBSET StatKeys}

\* -------------------------------------------------------------- script run

Init ==
    /\ pc = "load"
    /\ exc = "none"
    /\ cache = "empty"
    /\ file_read = FALSE
    /\ data_processor = Unset
    /\ shown = <<>>
    /\ calls = <<>>
    /\ price_ranges = <<>>
    /\ selected = [neighborhood_group |-> Unset, room_type |-> Unset]
    /\ neighborhood_group = Unset
    /\ room_type = Unset
    /\ min_value = 0
    /\ max_value = 0
    /\ min_price = 0
    /\ max_price = 0
    /\ data_processor_filtered = PyNone
    /\ overview_stats = <<>>
    /\ metrics = <<>>
    /\ view_data = PyNone

\* The run is going on: no st.stop(), no uncaught exception.
Running(at) == pc = at /\ exc = "none"

Call(method, args) == [method |-> method, args |-> args]

\* Faulty variant: load_data without the st.cache_data decorator.
CacheHitNever(c) == FALSE

\* st.cache_data finds load_data's result of an earlier run.
CacheHit(c) == c # "empty"

\* Faulty variant: the except block without st.stop().
AfterLoadFailureNoStop == "title"

\* Where the except block of the load leaves the run: st.stop() ends it.
AfterLoadFailure == "stopped"

\* load_data() answered from the cache: the file is not read.
LoadCached ==
    /\ Running("load")
    /\ CacheHit(cache)
    /\ data_processor' = cache
    /\ pc' = "title"
    /\ UNCHANGED <<exc, cache, file_read, shown, calls, price_ranges, filterVars,
                   boundVars, priceVars, data_processor_filtered, statVars, view_data>>

\* load_data() runs DataProcessor(csv), which succeeds: the result is cached.
LoadFromFile ==
    /\ Running("load")
    /\ ~CacheHit(cache)
    /\ file_read' = TRUE
    /\ cache' = TheProcessor
    /\ data_processor' = TheProcessor
    /\ pc' = "title"
    /\ UNCHANGED <<exc, shown, calls, price_ranges, filterVars, boundVars, priceVars,
                   data_processor_filtered, statVars, view_data>>

\* DataProcessor(csv) raises: nothing is cached, the except block shows the
\* error and stops the run.
LoadFails ==
    /\ Running("load")
    /\ ~CacheHit(cache)
    /\ file_read' = TRUE
    /\ data_processor' = "None"
    /\ shown' = Append(shown, "error")
    /\ pc' = AfterLoadFailure
    /\ UNCHANGED <<exc, cache, calls, price_ranges, filterVars, boundVars, priceVars,
                   data_processor_filtered, statVars, view_data>>

\* st.title, st.markdown, st.sidebar.header.
Title ==
    /\ Running("title")
    /\ shown' = shown \o <<"title", "markdown", "sidebar.header">>
    /\ pc' = "options"
    /\ UNCHANGED <<exc, loadVars, calls, price_ranges, filterVars, boundVars, priceVars,
                   data_processor_filtered, statVars, view_data>>

\* The three option getters; a method call on None raises AttributeError.
GetOptions ==
    /\ Running("options")
    /\ IF data_processor = "None"
       THEN /\ exc' = "AttributeError"
            /\ UNCHANGED <<pc, calls, price_ranges>>
       ELSE /\ \E labels \in PriceRangeLists : price_ranges' = labels
            /\ calls' = calls \o <<Call("get_neighborhood_groups", <<>>),
                                   Call("get_room_types", <<>>),
                                   Call("get_price_ranges", <<>>)>>
            /\ pc' = "neighborhood_group"
            /\ exc' = exc
    /\ UNCHANGED <<loadVars, shown, filterVars, boundVars, priceVars,
                   data_processor_filtered, statVars, view_data>>

\* Faulty variant: the selectbox value passed on as it is.
AllKept(choice) == choice

\* "" if the selectbox returned "All", else what it returned.
AllMeansEmpty(choice) == IF choice = "All" THEN "" ELSE choice

Options(list) == {"All"} \cup {list[i] : i \in 1..Len(list)}

SelectNeighborhoodGroup ==
    /\ Running("neighborhood_group")
    /\ \E choice \in Options(NeighborhoodGroups) :
          /\ selected' = [selected EXCEPT !.neighborhood_group = choice]
          /\ neighborhood_group' = AllMeansEmpty(choice)
    /\ shown' = Append(shown, "selectbox:neighborhood_group")
    /\ pc' = "room_type"
    /\ UNCHANGED <<exc, loadVars, calls, price_ranges, room_type, boundVars, priceVars,
                   data_processor_filtered, statVars, view_data>>

SelectRoomType ==
    /\ Running("room_type")
    /\ \E choice \in Options(RoomTypes) :
          /\ selected' = [selected EXCEPT !.room_type = choice]
          /\ room_type' = AllMeansEmpty(choice)
    /\ shown' = Append(shown, "selectbox:room_type")
    /\ pc' = "extract"
    /\ UNCHANGED <<exc, loadVars, calls, price_ranges, neighborhood_group, boundVars,
                   priceVars, data_processor_filtered, statVars, view_data>>

\* min_value, max_value = extract_min_max_from_price_ranges(price_ranges),
\* called outside any try: what it raises ends the run.
ExtractBounds ==
    /\ Running("extract")
    /\ LET r == extract_min_max_from_price_ranges(price_ranges)
       IN  IF r.raised # "none"
           THEN /\ exc' = r.raised
                /\ UNCHANGED <<pc, boundVars>>
           ELSE /\ min_value' = r.min_value
                /\ max_value' = r.max_value
                /\ pc' = "slider"
                /\ exc' = exc
    /\ UNCHANGED <<loadVars, shown, calls, price_ranges, filterVars, priceVars,
                   data_processor_filtered, statVars, view_data>>

\* st.sidebar.slider over a well-ordered range: the user's pair, the default
\* (min_value, max_value) included.
Slider ==
    /\ Running("slider")
    /\ min_value <= max_value
    /\ \E lo \in min_value..max_value, hi \in min_value..max_value :
          /\ lo <= hi
          /\ min_price' = lo
          /\ max_price' = hi
    /\ shown' = Append(shown, "slider:price")
    /\ pc' = "filter"
    /\ UNCHANGED <<exc, loadVars, calls, price_ranges, filterVars, boundVars,
                   data_processor_filtered, statVars, view_data>>

\* The slider given min_value > max_value.  What Streamlit does then depends
\* on its version: it refuses the arguments, or it swaps the bounds.
SliderInvertedRaises ==
    /\ Running("slider")
    /\ min_value > max_value
    /\ exc' = "StreamlitAPIException"
    /\ UNCHANGED <<pc, loadVars, shown, calls, price_ranges, filterVars, boundVars,
                   priceVars, data_processor_filtered, statVars, view_data>>

SliderInvertedSwaps ==
    /\ Running("slider")
    /\ min_value > max_value
    /\ \E lo \in max_value..min_value, hi \in max_value..min_value :
          /\ lo <= hi
          /\ min_price' = lo
          /\ max_price' = hi
    /\ shown' = Append(shown, "slider:price")
    /\ pc' = "filter"
    /\ UNCHANGED <<exc, loadVars, calls, price_ranges, filterVars, boundVars,
                   data_processor_filtered, statVars, view_data>>

\* The arguments of the two calls that take the whole selection.
FullSelection == <<neighborhood_group, room_type, min_price, max_price>>

\* data_processor_filtered = data_processor.get_filtered_data(...)
ApplyFilters ==
    /\ Running("filter")
    /\ \E result \in QueryResults : data_processor_filtered' = result
    /\ calls' = Append(calls, Call("get_filtered_data", FullSelection))
    /\ pc' = "overview"
    /\ UNCHANGED <<exc, loadVars, shown, price_ranges, filterVars, boundVars, priceVars,
                   statVars, view_data>>

\* Faulty variant: a .get under a key the dict never holds.
DictGetMisspelledKey(d, key, default) == default

\* dict.get(key, default)
DictGet(d, key, default) == IF key \in DOMAIN d THEN d[key] ELSE default

\* An f-string field: the format spec and the value it is applied to.
Formatted(spec, value) == [spec |-> spec, value |-> value]

\* get_overview_stats(), the four .get with defaults, the four st.metric and
\* st.tabs.
Overview ==
    /\ Running("overview")
    /\ \E stats \in StatsResults :
          /\ overview_stats' = stats
          /\ metrics' =
                [total_listings |-> Formatted(",", DictGet(stats, "total_listings", 0)),
                 avg_price |-> Formatted(".2f", DictGet(stats, "avg_price", 0)),
                 avg_reviews |-> Formatted(".1f", DictGet(stats, "avg_reviews", 0)),
                 neighborhoods |-> Formatted("", DictGet(stats, "neighborhoods", 0))]
    /\ calls' = Append(calls, Call("get_overview_stats", <<>>))
    /\ shown' = shown \o <<"subheader:overview", "metric:Total Listings",
                           "metric:Average Price", "metric:Average Reviews",
                           "metric:Neighborhoods", "tabs">>
    /\ pc' = "tab1"
    /\ UNCHANGED <<exc, loadVars, price_ranges, filterVars, boundVars, priceVars,
                   data_processor_filtered, view_data>>

\* Faulty variant: `len(data) > 0` without the `data and` guard: len(None) raises.
HasDataUnguarded(data) ==
    IF data.kind = "None" THEN "TypeError"
    ELSE IF data.len > 0 THEN "True" ELSE "False"

\* `data and len(data) > 0`: None and an empty container are falsy, so len
\* is only taken of a non-empty container.
HasData(data) ==
    IF data.kind = "None" \/ data.len = 0 THEN "False"
    ELSE IF data.len > 0 THEN "True" ELSE "False"

\* A tab block: the subheader, the query, then the chart or the info message.
TabBlock(tab, query, next) ==
    /\ Running(tab)
    /\ calls' = Append(calls, query)
    /\ \E result \in QueryResults :
          /\ view_data' = result
          /\ LET test == HasData(result)
             IN  CASE test = "True" ->
                        /\ shown' = shown \o <<"subheader:" \o tab, "plotly_chart:" \o tab>>
                        /\ pc' = next
                        /\ exc' = exc
                   [] test = "False" ->
                        /\ shown' = shown \o <<"subheader:" \o tab, "info:" \o tab>>
                        /\ pc' = next
                        /\ exc' = exc
                   [] OTHER ->
                        /\ shown' = Append(shown, "subheader:" \o tab)
                        /\ exc' = test
                        /\ pc' = pc
    /\ UNCHANGED <<loadVars, price_ranges, filterVars, boundVars, priceVars,
                   data_processor_filtered, statVars>>

Tab1 ==
    TabBlock("tab1",
             Call("get_price_by_neighborhood", <<neighborhood_group, room_type>>),
             "tab2")

Tab2 ==
    TabBlock("tab2", Call("get_room_type_distribution", <<neighborhood_group>>), "tab3")

Tab3 ==
    TabBlock("tab3",
             Call("get_availability_data", <<neighborhood_group, room_type>>),
             "tab4")

Tab4 ==
    TabBlock("tab4", Call("get_reviews_data", <<neighborhood_group, room_type>>), "tab5")

Tab5 == TabBlock("tab5", Call("get_location_data", FullSelection), "table")

\* The filtered listings table, from the result of the get_filtered_data call.
DataTable ==
    /\ Running("table")
    /\ LET test == HasData(data_processor_filtered)
       IN  CASE test = "True" ->
                  /\ shown' = shown \o <<"subheader:table", "dataframe:table">>
                  /\ pc' = "footer"
                  /\ exc' = exc
             [] test = "False" ->
                  /\ shown' = shown \o <<"subheader:table", "info:table">>
                  /\ pc' = "footer"
                  /\ exc' = exc
             [] OTHER ->
                  /\ shown' = Append(shown, "subheader:table")
                  /\ exc' = test
                  /\ pc' = pc
    /\ UNCHANGED <<loadVars, calls, price_ranges, filterVars, boundVars, priceVars,
                   data_processor_filtered, statVars, view_data>>

Footer ==
    /\ Running("footer")
    /\ shown' = shown \o <<"markdown:---", "markdown:source">>
    /\ pc' = "done"
    /\ UNCHANGED <<exc, loadVars, calls, price_ranges, filterVars, boundVars, priceVars,
                   data_processor_filtered, statVars, view_data>>

\* A user interaction: Streamlit runs the script again from the top, in a
\* fresh namespace; only the cache lives on.
Rerun ==
    /\ pc # "load"
    /\ pc' = "load"
    /\ exc' = "none"
    /\ file_read' = FALSE
    /\ data_processor' = Unset
    /\ shown' = <<>>
    /\ calls' = <<>>
    /\ price_ranges' = <<>>
    /\ selected' = [neighborhood_group |-> Unset, room_type |-> Unset]
    /\ neighborhood_group' = Unset
    /\ room_type' = Unset
    /\ min_value' = 0
    /\ max_value' = 0
    /\ min_price' = 0
    /\ max_price' = 0
    /\ data_processor_filtered' = PyNone
    /\ overview_stats' = <<>>
    /\ metrics' = <<>>
    /\ view_data' = PyNone
    /\ UNCHANGED cache

Next ==
    \/ LoadCached
    \/ LoadFromFile
    \/ LoadFails
    \/ Title
    \/ GetOptions
    \/ SelectNeighborhoodGroup
    \/ SelectRoomType
    \/ ExtractBounds
    \/ Slider
    \/ SliderInvertedRaises
    \/ SliderInvertedSwaps
    \/ ApplyFilters
    \/ Overview
    \/ Tab1
    \/ Tab2
    \/ Tab3
    \/ Tab4
    \/ Tab5
    \/ DataTable
    \/ Footer
    \/ Rerun

Spec == Init /\ [][Next]_vars

\* The helper on its own: the script is at the call with any list of labels.
InitRange ==
    /\ pc = "extract"
    /\ exc = "none"
    /\ cache = TheProcessor
    /\ file_read = FALSE
    /\ data_processor = TheProcessor
    /\ shown = <<>>
    /\ calls = <<>>
    /\ price_ranges \in LabelLists
    /\ selected = [neighborhood_group |-> "All", room_type |-> "All"]
    /\ neighborhood_group = ""
    /\ room_type = ""
    /\ min_value = 0
    /\ max_value = 0
    /\ min_price = 0
    /\ max_price = 0
    /\ data_processor_filtered = PyNone
    /\ overview_stats = <<>>
    /\ metrics = <<>>
    /\ view_data = PyNone

SpecRange == InitRange /\ [][ExtractBounds]_vars

\* ==================================================================== claims

\* The call of the helper has returned or raised.
ExtractDone == pc = "slider" \/ (pc = "extract" /\ exc # "none")

\* The parts of a label: '$' removed, split on '-'.
PartsOf(label) == Split(Replace(label.text, "$"), "-")

\* A well-formed label: a text whose first and second part both parse.
WellFormed(label) ==
    /\ label.type = "str"
    /\ Len(PartsOf(label)) >= 2
    /\ IntParses(PartsOf(label)[1])
    /\ IntParses(PartsOf(label)[2])

WellFormedOf(labels) == SelectSeq(labels, WellFormed)

FirstParts(labels) == [i \in 1..Len(labels) |-> IntVal(PartsOf(labels[i])[1])]

SecondParts(labels) == [i \in 1..Len(labels) |-> IntVal(PartsOf(labels[i])[2])]

\* C1: when at least one label is well-formed, the helper returns the smallest
\* first part and the largest second part of the well-formed labels only; a
\* label with an unparsable or missing part contributes to neither bound.
C1_BoundsFromWellFormedOnly ==
    (ExtractDone /\ WellFormedOf(price_ranges) # <<>>) =>
        /\ exc = "none"
        /\ min_value = Min(FirstParts(WellFormedOf(price_ranges)))
        /\ max_value = Max(SecondParts(WellFormedOf(price_ranges)))

\* C2: the helper fails if and only if no label of the list parses into both
\* bounds (the empty list included); a malformed label beside a well-formed
\* one never makes it fail.
C2_FailsIffNothingParses ==
    ExtractDone => ((exc # "none") <=> (WellFormedOf(price_ranges) = <<>>))

\* C2 witness: the helper returned for a list that holds a malformed label.
C2_ReturnedDespiteMalformed ==
    /\ pc = "slider"
    /\ exc = "none"
    /\ \E i \in 1..Len(price_ranges) : ~WellFormed(price_ranges[i])

\* C3: when no valid bounds can be derived from the labels, the run does not
\* end at the call of the helper: it goes on to the slider and the page.
C3_NoBoundsDoesNotCrash ==
    (pc = "extract" /\ WellFormedOf(price_ranges) = <<>>) => exc = "none"

\* C4: in a run where load_data raises, the error message is shown, the run
\* stops and nothing else happens in it: no title, no widget, no query, no
\* chart, no table; no DataProcessor method is called while data_processor
\* is None.
C4_LoadFailureIsFatal ==
    /\ data_processor = "None" =>
          /\ pc = "stopped"
          /\ exc = "none"
          /\ shown = <<"error">>
          /\ calls = <<>>
    /\ (calls # <<>> \/ Len(shown) > 1) => data_processor = TheProcessor

\* C4 witness: a run stopped by a failed load.
C4_StoppedAfterFailedLoad ==
    pc = "stopped" /\ data_processor = "None" /\ file_read /\ shown = <<"error">>

\* C5: once a load has succeeded, no run of the session reads the file again:
\* the cache entry stays, and load_data hands it to every later run.
C5_LoadMemoized ==
    [][cache = TheProcessor =>
          /\ cache' = cache
          /\ file_read' => file_read
          /\ (pc = "load" /\ pc' # "load") =>
                (data_processor' = cache /\ ~file_read')]_vars

\* C5 witness: a rerun rendered the whole page from the cached load.
C5_RerunServedFromCache ==
    /\ pc = "done"
    /\ cache = TheProcessor
    /\ data_processor = TheProcessor
    /\ ~file_read

\* C6: the category a query is given is "" exactly when "All" is selected
\* and is the selected option otherwise; "All" itself is never given.
C6_AllMeansNoRestriction ==
    \A i \in 1..Len(calls) :
        LET args == calls[i].args
        IN  /\ Len(args) >= 1 =>
                  /\ args[1] # "All"
                  /\ (args[1] = "") <=> (selected.neighborhood_group = "All")
                  /\ selected.neighborhood_group # "All" =>
                        args[1] = selected.neighborhood_group
            /\ Len(args) >= 2 =>
                  /\ args[2] # "All"
                  /\ (args[2] = "") <=> (selected.room_type = "All")
                  /\ selected.room_type # "All" => args[2] = selected.room_type

\* C6 witness: a finished run with "All" for one filter and an option for the
\* other.
C6_AllAndOptionQueried ==
    /\ pc = "done"
    /\ selected.neighborhood_group = "All"
    /\ selected.room_type = "Private room"
    /\ Len(calls) = 10

Views == <<"tab1", "tab2", "tab3", "tab4", "tab5", "table">>

\* The element a view draws its data with.
Drawn(view) == IF view = "table" THEN "dataframe:table" ELSE "plotly_chart:" \o view

Shown(element) == \E i \in 1..Len(shown) : shown[i] = element

IsEmptyResult(data) == data.kind = "None" \/ data.len = 0

\* The view shows the info message and draws nothing, or the reverse.
InfoOnly(view) == Shown("info:" \o view) /\ ~Shown(Drawn(view))

DrawnOnly(view) == Shown(Drawn(view)) /\ ~Shown("info:" \o view)

\* C7: a view whose result is empty or None shows the info message and
\* draws nothing, a view whose result is non-empty draws it and shows no
\* info message; no view raises, and the run goes on to the remaining views.
C7_EmptyResultIsInfo ==
    /\ pc \in {"tab1", "tab2", "tab3", "tab4", "tab5", "table"} => exc = "none"
    /\ \A n \in 1..5 :
          pc = Views[n + 1] =>
              IF IsEmptyResult(view_data) THEN InfoOnly(Views[n]) ELSE DrawnOnly(Views[n])
    /\ pc \in {"footer", "done"} =>
          IF IsEmptyResult(data_processor_filtered)
          THEN InfoOnly("table") ELSE DrawnOnly("table")
    /\ pc = "done" =>
          \A n \in 1..6 : InfoOnly(Views[n]) \/ DrawnOnly(Views[n])

\* C7 witness: a finished run with a None result, an empty one and a chart.
C7_MixedViewsRendered ==
    /\ pc = "done"
    /\ view_data = PyNone
    /\ data_processor_filtered = Container(0)
    /\ Shown("plotly_chart:tab1")
    /\ Shown("info:tab5")
    /\ Shown("info:table")

AfterOverview == {"tab1", "tab2", "tab3", "tab4", "tab5", "table", "footer", "done"}

\* C8: the overview completes whatever keys get_overview_stats leaves out;
\* an absent metric is displayed with its zero default, a present one with
\* the value returned.
C8_AbsentStatsDefaultToZero ==
    /\ pc = "overview" => exc = "none"
    /\ pc \in AfterOverview =>
          \A k \in StatKeys :
              metrics[k].value = (IF k \in DOMAIN overview_stats THEN overview_stats[k] ELSE 0)

\* C8 witness: the overview shown for a result with a key absent and one
\* present.
C8_PartialStatsShown ==
    /\ pc = "tab1"
    /\ "total_listings" \notin DOMAIN overview_stats
    /\ "avg_price" \in DOMAIN overview_stats
    /\ Shown("metric:Total Listings")

DisplayQueries ==
    {"get_filtered_data", "get_overview_stats", "get_price_by_neighborhood",
     "get_room_type_distribution", "get_availability_data", "get_reviews_data",
     "get_location_data"}

\* C9: every query behind the overview, the five tabs and the data table is
\* given the run's whole selection: neighborhood group, room type, min_price
\* and max_price.
C9_EveryQueryGetsSelection ==
    \A i \in 1..Len(calls) :
        calls[i].method \in DisplayQueries => calls[i].args = FullSelection

\* C10 as stated: whenever the helper returns, min <= max.
C10_MinLeMax == (pc = "slider" /\ exc = "none") => min_value <= max_value

\* Every well-formed label has its first part at most its second part.
LabelsOrdered(labels) ==
    \A i \in 1..Len(WellFormedOf(labels)) :
        FirstParts(WellFormedOf(labels))[i] <= SecondParts(WellFormedOf(labels))[i]

\* C10 amended: whenever the helper returns for a list whose well-formed
\* labels each have first part <= second part, min <= max.
C10_MinLeMaxForOrderedLabels ==
    (pc = "slider" /\ exc = "none" /\ LabelsOrdered(price_ranges)) =>
        min_value <= max_value

\* C10 witness: the helper returned a proper range for ordered labels, one
\* of them half-parsed.
C10_OrderedLabelsReturned ==
    /\ pc = "slider"
    /\ exc = "none"
    /\ LabelsOrdered(price_ranges)
    /\ Len(WellFormedOf(price_ranges)) >= 2
    /\ \E i \in 1..Len(price_ranges) : ~WellFormed(price_ranges[i])
    /\ min_value < max_value

====
